---- MODULE Spec2Model ----
(***************************************************************************)
(* Model of _misc/readme_update_helptext.py: main() runs                   *)
(* nirw-search --help, formats the captured output and splices it        *)
(* between the markers of readme.rst.                                      *)
(*                                                                         *)
(* Text is a sequence of one-character strings.  Indices into text are     *)
(* Python's (0-based); Slice(s, lo, hi) is s[lo:hi].  Inputs are ASCII, on *)
(* which UTF-8 decoding and encoding keep every character.                 *)
(***************************************************************************)
EXTENDS Integers, Sequences, FiniteSets

\* ------------------------------------------------------------------ bounds
MaxDocPieces == 3
MaxHelpPieces == 1
MaxFmtPieces == 4
MaxRuns == 2

\* --------------------------------------------------------------- constants
help_begin_text == <<".", ".", " ", "B", "E", "G", "I", "N", " ", "H", "E", "L", "P", " ", "T", "E", "X", "T">>
help_end_text == <<".", ".", " ", "E", "N", "D", " ", "H", "E", "L", "P", " ", "T", "E", "X", "T">>
\* the grave accent (U+0060), which a string of this language cannot hold
Backtick == "GRAVE"
HelpHeader == <<"\n", "O", "u", "t", "p", "u", "t", " ", "o", "f", " ", Backtick, Backtick, "n", "i", "r", "w", "-", "s", "e", "a", "r", "c", "h", " ", "-", "-", "h", "e", "l", "p", Backtick, Backtick, ":", ":", "\n", "\n">>
IndentPrefix == <<" ", " ", " ">>
HelpSuffix == <<"\n", "\n">>
\* the control characters U+000B, U+000C, U+001C, U+001D, U+001E and U+001F,
\* which a string of this language cannot hold
VerticalTab == "VT"
FormFeed == "FF"
FileSep == "FS"
GroupSep == "GS"
RecordSep == "RS"
UnitSep == "US"
\* the ASCII characters str.rstrip() and str.strip() remove
Whitespace == {" ", "\t", "\n", "\r", VerticalTab, FormFeed, FileSep, GroupSep, RecordSep, UnitSep}
\* the ASCII characters at which str.splitlines() ends a line
LineEnds == {"\n", "\r", VerticalTab, FormFeed, FileSep, GroupSep, RecordSep}
\* os.linesep of the platform the script is run on (POSIX)
Linesep == <<"\n">>
\* the size from which the text layer of a file opened with the default
\* buffering passes a written text on to the binary buffer of the file
WriteChunkSize == 8192
\* st_blksize of readme.rst, the size of that binary buffer: of the file
\* system of the repository, and of one with huge pages
BlockSizes == {4096, 2097152}

\* ------------------------------------------------------- string operations
Max(a, b) == IF a > b THEN a ELSE b
Min(a, b) == IF a < b THEN a ELSE b

\* s[lo:hi] with the end index taken as inclusive (a faulty variant of Slice)
SliceInclusive(s, lo, hi) == SubSeq(s, Min(lo, Len(s)) + 1, Min(hi + 1, Len(s)))

\* s[lo:hi] for lo, hi >= 0
Slice(s, lo, hi) == SubSeq(s, Min(lo, Len(s)) + 1, Min(hi, Len(s)))

\* s[lo + 1:] (a faulty variant of SliceFrom)
SliceFromNext(s, lo) == Slice(s, lo + 1, Len(s))

\* s[lo:]
SliceFrom(s, lo) == Slice(s, lo, Len(s))

\* str.find(sub, start) as it answers 0 where sub does not occur (a faulty variant of Find)
FindNoMiss(s, sub, start) ==
    LET from == IF start < 0 THEN Max(start + Len(s), 0) ELSE start
        hits == {i \in from..(Len(s) - Len(sub)) : SubSeq(s, i + 1, i + Len(sub)) = sub}
    IN  IF hits = {} THEN 0 ELSE CHOOSE i \in hits : \A j \in hits : i <= j

\* str.find(sub, start) as it ignores the start (a faulty variant of Find)
FindFromStart(s, sub, start) ==
    LET hits == {i \in 0..(Len(s) - Len(sub)) : SubSeq(s, i + 1, i + Len(sub)) = sub}
    IN  IF hits = {} THEN -1 ELSE CHOOSE i \in hits : \A j \in hits : i <= j

\* s.find(sub, start): the lowest index >= start at which sub occurs, or -1;
\* a negative start counts from the end of s
Find(s, sub, start) ==
    LET from == IF start < 0 THEN Max(start + Len(s), 0) ELSE start
        hits == {i \in from..(Len(s) - Len(sub)) : SubSeq(s, i + 1, i + Len(sub)) = sub}
    IN  IF hits = {} THEN -1 ELSE CHOOSE i \in hits : \A j \in hits : i <= j

\* s.rstrip()
RECURSIVE Rstrip(_)
Rstrip(s) ==
    IF s # <<>> /\ s[Len(s)] \in Whitespace
    THEN Rstrip(SubSeq(s, 1, Len(s) - 1))
    ELSE s

\* the length of the first line of a non-empty s, its line end included;
\* a line ends at a character of LineEnds, "\r\n" ending it as one
FirstLineLen(s) ==
    LET ends == {i \in 1..Len(s) : s[i] \in LineEnds}
    IN  IF ends = {} THEN Len(s)
        ELSE LET i == CHOOSE e \in ends : \A f \in ends : e <= f
             IN  IF s[i] = "\r" /\ i < Len(s) /\ s[i + 1] = "\n" THEN i + 1 ELSE i

\* s.splitlines(True)
RECURSIVE SplitLines(_)
SplitLines(s) ==
    IF s = <<>> THEN <<>>
    ELSE <<SubSeq(s, 1, FirstLineLen(s))>> \o SplitLines(SubSeq(s, FirstLineLen(s) + 1, Len(s)))

\* ''.join(lines)
RECURSIVE Join(_)
Join(lines) ==
    IF lines = <<>> THEN <<>>
    ELSE IF Len(lines) = 1 THEN lines[1]
    ELSE Join(SubSeq(lines, 1, Len(lines) \div 2))
             \o Join(SubSeq(lines, Len(lines) \div 2 + 1, Len(lines)))

\* textwrap.indent's default predicate: line.strip() is not empty
HasText(line) == \E i \in 1..Len(line) : line[i] \notin Whitespace

\* a line of textwrap.indent that prefixes every line (a faulty variant of IndentLine)
IndentLineAlways(line, prefix) == prefix \o line

\* one line of textwrap.indent(text, prefix)
IndentLine(line, prefix) == IF HasText(line) THEN prefix \o line ELSE line

\* textwrap.indent(text, prefix)
Indent(text, prefix) ==
    LET lines == SplitLines(text)
    IN  Join([i \in 1..Len(lines) |-> IndentLine(lines[i], prefix)])

\* f.read() of a file opened in text mode with newline=None: "\r\n" and "\r" read as "\n"
ReadText(bytes) ==
    LET kept == SelectSeq([i \in 1..Len(bytes) |-> i],
                          LAMBDA i : ~(bytes[i] = "\n" /\ i > 1 /\ bytes[i - 1] = "\r"))
    IN  [k \in 1..Len(kept) |-> IF bytes[kept[k]] = "\r" THEN "\n" ELSE bytes[kept[k]]]

\* f.write() to a file opened in text mode with newline=None: "\n" written as os.linesep
WriteText(text) ==
    Join([i \in 1..Len(text) |-> IF text[i] = "\n" THEN Linesep ELSE <<text[i]>>])

\* repr() of a string without quotes or backslashes
Repr(s) == <<"'">> \o s \o <<"'">>

\* 'Error: {!r} not found'.format(marker)
ErrorMessage(marker) ==
    <<"E", "r", "r", "o", "r", ":", " ">> \o Repr(marker)
        \o <<" ", "n", "o", "t", " ", "f", "o", "u", "n", "d">>

\* ------------------------------------------------------------------ inputs
RECURSIVE Texts(_, _)
Texts(pieces, n) ==
    IF n = 0 THEN {<<>>}
    ELSE LET shorter == Texts(pieces, n - 1)
         IN  shorter \cup {t \o p : t \in shorter, p \in pieces}

DocPieces == {<<"x">>, <<"\n">>, <<"\r">>, help_begin_text, help_end_text}
HelpPieces == {<<"a">>, help_end_text}
FmtPieces == {<<"a">>, <<" ">>, <<"\n">>, <<FormFeed>>}
\* a document whose updated text is longer than the write buffer
LongDoc == [i \in 1..WriteChunkSize |-> "x"] \o help_begin_text \o <<"\n">> \o help_end_text
FmtDocs == {<<"x">>, help_begin_text, help_begin_text \o <<"\n">> \o help_end_text}

\* ------------------------------------------------------------------- state
VARIABLES
    pc,                \* the position of main() in the current run
    proc_stdout,       \* what nirw-search --help writes to its standard output
    proc_returncode,   \* the exit status of nirw-search --help
    file,              \* the contents of readme.rst on disk
    st_blksize,        \* the block size of the file system readme.rst is on
    p,                 \* the CompletedProcess of subprocess.run
    help_output,
    data,
    help_begin_index,
    help_end_index,
    data_update,
    wbuffer,           \* text written to the open file, flushed when it is closed
    printed,           \* the lines printed in the current run
    events,            \* the process and file events of the current run, in order
    file0,             \* readme.rst when the current run started
    results            \* readme.rst at the end of each finished run

vars == <<pc, proc_stdout, proc_returncode, file, st_blksize, p, help_output, data,
          help_begin_index, help_end_index, data_update, wbuffer, printed,
          events, file0, results>>

env == <<proc_stdout, proc_returncode, st_blksize>>

Locals0 ==
    /\ pc = "run"
    /\ p = [stdout |-> <<>>, returncode |-> 0]
    /\ help_output = <<>>
    /\ data = <<>>
    /\ help_begin_index = 0
    /\ help_end_index = 0
    /\ data_update = <<>>
    /\ wbuffer = <<>>
    /\ printed = <<>>
    /\ events = <<>>

Init ==
    /\ \/ /\ proc_stdout \in Texts(HelpPieces, MaxHelpPieces)
          /\ proc_returncode \in {0, 1}
          /\ file \in Texts(DocPieces, MaxDocPieces)
          \* a text shorter than WriteChunkSize is held whatever the block size
          /\ st_blksize = 4096
       \/ /\ proc_stdout = <<"a">>
          /\ proc_returncode = 0
          /\ file = LongDoc
          /\ st_blksize \in BlockSizes
    /\ file0 = file
    /\ results = <<>>
    /\ Locals0

InitFmt ==
    /\ proc_stdout \in Texts(FmtPieces, MaxFmtPieces)
    /\ proc_returncode \in {0, 1}
    /\ file \in FmtDocs
    /\ st_blksize = 4096
    /\ file0 = file
    /\ results = <<>>
    /\ Locals0

\* ----------------------------------------------------------------- actions
\* p = subprocess.run([...], stdout=subprocess.PIPE)
RunSubprocess ==
    /\ pc = "run"
    /\ p' = [stdout |-> proc_stdout, returncode |-> proc_returncode]
    /\ events' = events \o <<"spawn", "exit">>
    /\ pc' = "strip"
    /\ UNCHANGED <<env, file, help_output, data, help_begin_index, help_end_index,
                   data_update, wbuffer, printed, file0, results>>

\* help_output = p.stdout.decode('utf-8').rstrip() + '\n\n'
StripOutput ==
    /\ pc = "strip"
    /\ help_output' = Rstrip(p.stdout) \o HelpSuffix
    /\ pc' = "indent"
    /\ UNCHANGED <<env, file, p, data, help_begin_index, help_end_index,
                   data_update, wbuffer, printed, events, file0, results>>

\* help_output = (the header, line 25) + textwrap.indent(help_output, '   ')
IndentOutput ==
    /\ pc = "indent"
    /\ help_output' = HelpHeader \o Indent(help_output, IndentPrefix)
    /\ pc' = "read"
    /\ UNCHANGED <<env, file, p, data, help_begin_index, help_end_index,
                   data_update, wbuffer, printed, events, file0, results>>

\* with open('readme.rst', 'r', encoding='utf-8') as f: data = f.read()
ReadDocument ==
    /\ pc = "read"
    /\ data' = ReadText(file)
    /\ events' = events \o <<"open_r", "read", "close_r">>
    /\ pc' = "find"
    /\ UNCHANGED <<env, file, p, help_output, help_begin_index, help_end_index,
                   data_update, wbuffer, printed, file0, results>>

\* help_begin_index = data.find(help_begin_text)
\* help_end_index = data.find(help_end_text, help_begin_index)
FindMarkers ==
    /\ pc = "find"
    /\ help_begin_index' = Find(data, help_begin_text, 0)
    /\ help_end_index' = Find(data, help_end_text, Find(data, help_begin_text, 0))
    /\ pc' = "check"
    /\ UNCHANGED <<env, file, p, help_output, data, data_update, wbuffer, printed,
                   events, file0, results>>

\* if help_begin_index == -1: print(...); return
ReportBeginMissing ==
    /\ pc = "check"
    /\ help_begin_index = -1
    /\ printed' = Append(printed, ErrorMessage(help_begin_text))
    /\ pc' = "returned"
    /\ results' = Append(results, file)
    /\ UNCHANGED <<env, file, p, help_output, data, help_begin_index, help_end_index,
                   data_update, wbuffer, events, file0>>

\* the end marker's check without its return (a faulty variant of ReportEndMissing)
ReportEndMissingNoReturn ==
    /\ pc = "check"
    /\ help_begin_index # -1
    /\ help_end_index = -1
    /\ printed' = Append(printed, ErrorMessage(help_end_text))
    /\ pc' = "open_w"
    /\ UNCHANGED <<env, file, p, help_output, data, help_begin_index, help_end_index,
                   data_update, wbuffer, events, file0, results>>

\* if help_end_index == -1: print(...); return
ReportEndMissing ==
    /\ pc = "check"
    /\ help_begin_index # -1
    /\ help_end_index = -1
    /\ printed' = Append(printed, ErrorMessage(help_end_text))
    /\ pc' = "returned"
    /\ results' = Append(results, file)
    /\ UNCHANGED <<env, file, p, help_output, data, help_begin_index, help_end_index,
                   data_update, wbuffer, events, file0>>

\* the splice with the marker's length plus two (a faulty variant of Splice)
SpliceSkipTwo ==
    /\ pc = "check"
    /\ help_begin_index # -1
    /\ help_end_index # -1
    /\ help_begin_index' = help_begin_index + Len(help_begin_text) + 2
    /\ data_update' = Slice(data, 0, help_begin_index + Len(help_begin_text) + 2)
                          \o help_output \o SliceFrom(data, help_end_index)
    /\ pc' = "open_w"
    /\ UNCHANGED <<env, file, p, help_output, data, help_end_index, wbuffer, printed,
                   events, file0, results>>

\* help_begin_index += len(help_begin_text) + 1
\* data_update = data[:help_begin_index] + help_output + data[help_end_index:]
Splice ==
    /\ pc = "check"
    /\ help_begin_index # -1
    /\ help_end_index # -1
    /\ help_begin_index' = help_begin_index + Len(help_begin_text) + 1
    /\ data_update' = Slice(data, 0, help_begin_index + Len(help_begin_text) + 1)
                          \o help_output \o SliceFrom(data, help_end_index)
    /\ pc' = "open_w"
    /\ UNCHANGED <<env, file, p, help_output, data, help_end_index, wbuffer, printed,
                   events, file0, results>>

\* open('readme.rst', 'w', encoding='utf-8'): the file is truncated
OpenWrite ==
    /\ pc = "open_w"
    /\ file' = <<>>
    /\ wbuffer' = <<>>
    /\ events' = Append(events, "open_w")
    /\ pc' = "write"
    /\ UNCHANGED <<env, p, help_output, data, help_begin_index, help_end_index,
                   data_update, printed, file0, results>>

\* f.write(data_update): the text layer holds a text shorter than its chunk
\* size and passes a longer one on to the binary buffer, which holds what
\* fits in it and writes a longer text through to the file
WriteDocument ==
    /\ pc = "write"
    /\ IF /\ Len(WriteText(data_update)) >= WriteChunkSize
          /\ Len(WriteText(data_update)) > st_blksize
       THEN /\ file' = file \o WriteText(data_update)
            /\ wbuffer' = wbuffer
       ELSE /\ file' = file
            /\ wbuffer' = wbuffer \o WriteText(data_update)
    /\ events' = Append(events, "write")
    /\ pc' = "close_w"
    /\ UNCHANGED <<env, p, help_output, data, help_begin_index, help_end_index,
                   data_update, printed, file0, results>>

\* the end of the with block: the buffer is flushed and the file closed; main returns
CloseDocument ==
    /\ pc = "close_w"
    /\ file' = file \o wbuffer
    /\ events' = Append(events, "close_w")
    /\ pc' = "returned"
    /\ results' = Append(results, file \o wbuffer)
    /\ UNCHANGED <<env, p, help_output, data, help_begin_index, help_end_index,
                   data_update, wbuffer, printed, file0>>

\* the script is run again, on the file the last run left and the same help output
RunAgain ==
    /\ pc = "returned"
    /\ Len(results) < MaxRuns
    /\ file0' = file
    /\ pc' = "run"
    /\ p' = [stdout |-> <<>>, returncode |-> 0]
    /\ help_output' = <<>>
    /\ data' = <<>>
    /\ help_begin_index' = 0
    /\ help_end_index' = 0
    /\ data_update' = <<>>
    /\ wbuffer' = <<>>
    /\ printed' = <<>>
    /\ events' = <<>>
    /\ UNCHANGED <<env, file, results>>

Next ==
    \/ RunSubprocess
    \/ StripOutput
    \/ IndentOutput
    \/ ReadDocument
    \/ FindMarkers
    \/ ReportBeginMissing
    \/ ReportEndMissing
    \/ Splice
    \/ OpenWrite
    \/ WriteDocument
    \/ CloseDocument
    \/ RunAgain

Spec == Init /\ [][Next]_vars
SpecFmt == InitFmt /\ [][Next]_vars

\* ---------------------------------------------------- properties: helpers
\* sub occurs in text at index i
OccursAt(text, sub, i) ==
    /\ i >= 0
    /\ i + Len(sub) <= Len(text)
    /\ \A k \in 1..Len(sub) : text[i + k] = sub[k]

\* i is the first index >= from at which sub occurs in text
FirstAt(text, sub, from, i) ==
    /\ i >= from
    /\ OccursAt(text, sub, i)
    /\ \A j \in from..(i - 1) : ~OccursAt(text, sub, j)

OccursFrom(text, sub, from) == \E i \in from..Len(text) : OccursAt(text, sub, i)

HasPrefix(text, pre) == Len(pre) <= Len(text) /\ SubSeq(text, 1, Len(pre)) = pre

HasSuffix(text, suf) ==
    Len(suf) <= Len(text) /\ SubSeq(text, Len(text) - Len(suf) + 1, Len(text)) = suf

EventAt(e) == {i \in DOMAIN events : events[i] = e}

\* the current run has written the file and returned
Updated == pc = "returned" /\ EventAt("close_w") # {}

\* text[0 : the end of the line the marker at b is on]
ThroughLineOf(text, b) ==
    LET ends == {i \in (b + Len(help_begin_text) + 1)..Len(text) : text[i] = "\n"}
    IN  IF ends = {} THEN text
        ELSE SubSeq(text, 1, CHOOSE i \in ends : \A j \in ends : i <= j)

\* the one line a finished run printed names the marker
Diagnosed(marker) ==
    /\ Len(printed) = 1
    /\ \E i \in 0..Len(printed[1]) : OccursAt(printed[1], Repr(marker), i)

\* --------------------------------------------------------------- C1
\* C1 as stated: after a run that writes the file, everything up to and
\* including the begin marker's line, and everything from the end marker to
\* the end of the file, is identical to what it was before the run.
C1_MarkerLinesAndOutsideIdentical ==
    Updated =>
        \E b \in 0..Len(file0) :
            /\ FirstAt(file0, help_begin_text, 0, b)
            /\ \E e \in 0..Len(file0) :
                   /\ FirstAt(file0, help_end_text, b, e)
                   /\ HasPrefix(file, ThroughLineOf(file0, b))
                   /\ HasSuffix(file, SubSeq(file0, e + 1, Len(file0)))

\* C1 as amended: after a run that writes the file, the file starts with the
\* old text up to and including the first begin marker and the one character
\* after it, and ends with the old text from the end marker on, where the old
\* text is the file as read (each "\r\n" and "\r" of it a "\n").
C1_OutsideRegionKept ==
    Updated =>
        LET old == ReadText(file0)
        IN  \E b \in 0..Len(old) :
                /\ FirstAt(old, help_begin_text, 0, b)
                /\ Len(old) >= b + Len(help_begin_text) + 1
                /\ HasPrefix(file, WriteText(SubSeq(old, 1, b + Len(help_begin_text) + 1)))
                /\ \E e \in 0..Len(old) :
                       /\ FirstAt(old, help_end_text, b, e)
                       /\ HasSuffix(file, WriteText(SubSeq(old, e + 1, Len(old))))

\* a run wrote a file that had text before the begin marker
C1_Witness ==
    /\ Updated
    /\ file # file0
    /\ file0[1] = "x"

\* --------------------------------------------------------------- C2
\* C2: with the same help output, the file after the second run equals the
\* file after the first run.
C2_SecondRunChangesNothing == Len(results) >= 2 => results[2] = results[1]

\* --------------------------------------------------------------- C3
\* C3: for a document without the begin marker, main prints one diagnostic
\* naming the begin marker and returns without opening the document for
\* writing; the file is what it was.
C3_NoBeginMarkerNoWrite ==
    ~OccursFrom(file0, help_begin_text, 0) =>
        /\ file = file0
        /\ EventAt("open_w") = {}
        /\ pc \notin {"open_w", "write", "close_w"}
        /\ pc = "returned" => Diagnosed(help_begin_text)

\* a run returned on a document that has the end marker but no begin marker
C3_Witness ==
    /\ pc = "returned"
    /\ ~OccursFrom(file0, help_begin_text, 0)
    /\ OccursFrom(file0, help_end_text, 0)
    /\ printed # <<>>

\* --------------------------------------------------------------- C4
\* C4: for a document with the begin marker and no end marker after the
\* begin marker's position, main prints one diagnostic naming the end marker
\* and does not modify the file.
C4_NoEndMarkerNoWrite ==
    (\E b \in 0..Len(file0) :
        /\ FirstAt(file0, help_begin_text, 0, b)
        /\ ~OccursFrom(file0, help_end_text, b)) =>
        /\ file = file0
        /\ EventAt("open_w") = {}
        /\ pc \notin {"open_w", "write", "close_w"}
        /\ pc = "returned" => Diagnosed(help_end_text)

\* a run returned on a document whose only end marker is before the begin marker
C4_Witness ==
    /\ pc = "returned"
    /\ OccursFrom(file0, help_begin_text, 0)
    /\ OccursAt(file0, help_end_text, 0)
    /\ file = file0
    /\ printed # <<>>

\* --------------------------------------------------------------- C5
\* C5: at every point of every run the file on disk is the complete original
\* text or the complete updated text.
C5_FileOriginalOrUpdated ==
    \/ file = file0
    \/ /\ pc \in {"open_w", "write", "close_w", "returned"}
       /\ file = WriteText(data_update)

\* --------------------------------------------------------------- C6
\* C6: when the help subprocess exits with a non-zero status, the run does
\* not splice its captured output into the document: the document is not
\* written.
C6_NonZeroExitNotSpliced ==
    (pc = "returned" /\ p.returncode # 0) => (EventAt("write") = {} /\ file = file0)

\* --------------------------------------------------------------- C7
\* the lines of the captured help output, its trailing whitespace stripped
OutputLines == SplitLines(Rstrip(p.stdout))

\* the lines of the help block as it stands in the updated file
BlockLines ==
    SplitLines(SubSeq(file, help_begin_index + 1, help_begin_index + Len(WriteText(help_output))))

\* the block is the label line between two empty lines, a line for each line
\* of the output, and the empty lines the two added newlines end
LabelNotIndented ==
    /\ Len(BlockLines) = Len(OutputLines) + (IF OutputLines = <<>> THEN 5 ELSE 4)
    /\ BlockLines[1] = <<"\n">>
    /\ BlockLines[2] = SubSeq(HelpHeader, 2, Len(HelpHeader) - 1)
    /\ BlockLines[2][1] = "O"
    /\ BlockLines[3] = <<"\n">>
    /\ BlockLines[Len(BlockLines)] = <<"\n">>

\* C7 as stated: in the updated document every line of the captured help
\* output, the empty and the whitespace-only ones included, is prefixed with
\* three spaces, and the label line is not indented.
C7_EveryLineIndented ==
    Updated =>
        /\ LabelNotIndented
        /\ \A i \in 1..Len(OutputLines) :
               HasPrefix(BlockLines[i + 3], <<" ", " ", " ">> \o OutputLines[i])

\* C7 as amended: in the updated document every line of the captured help
\* output that has a character other than whitespace is prefixed with exactly
\* three spaces, every empty or whitespace-only line is as it was, and the
\* label line is not indented.
C7_TextLinesIndented ==
    Updated =>
        /\ LabelNotIndented
        /\ \A i \in 1..Len(OutputLines) :
               LET line == OutputLines[i]
                   ended == IF i = Len(OutputLines) THEN line \o <<"\n">> ELSE line
               IN  IF \E k \in 1..Len(line) :
                          line[k] \notin {" ", "\t", "\n", "\r", "VT", "FF", "FS", "GS", "RS", "US"}
                   THEN BlockLines[i + 3] = <<" ", " ", " ">> \o ended
                   ELSE BlockLines[i + 3] = ended

\* a run spliced a help output with text lines around an empty line
C7_Witness ==
    /\ Updated
    /\ p.stdout = <<"a", "\n", "\n", "a">>
    /\ BlockLines[5] = <<"\n">>
    /\ BlockLines[6] = <<" ", " ", " ", "a", "\n">>

\* --------------------------------------------------------------- C8
\* C8: the subprocess has run to completion before the document is first
\* opened; the document is read in full once, before any write; the document
\* is opened for writing at most once, only after both marker searches
\* succeeded: once when a run returns without a diagnostic, never when it
\* returns with one.
C8_OrderOfEffects ==
    /\ Cardinality(EventAt("spawn")) <= 1
    /\ \A i \in EventAt("open_r") \cup EventAt("open_w") : \E j \in EventAt("exit") : j < i
    /\ Cardinality(EventAt("read")) <= 1
    /\ EventAt("read") # {} => data = ReadText(file0)
    /\ \A i \in EventAt("open_w") : \E j \in EventAt("read") : j < i
    /\ Cardinality(EventAt("open_w")) <= 1
    /\ EventAt("open_w") # {} =>
           \E b \in 0..Len(data) :
               /\ FirstAt(data, help_begin_text, 0, b)
               /\ OccursFrom(data, help_end_text, b)
    /\ pc = "returned" =>
           /\ Cardinality(EventAt("spawn")) = 1
           /\ Cardinality(EventAt("read")) = 1
           /\ Cardinality(EventAt("open_w")) = (IF printed = <<>> THEN 1 ELSE 0)

\* a run went through every effect of the success path
C8_Witness ==
    /\ pc = "returned"
    /\ events = <<"spawn", "exit", "open_r", "read", "close_r", "open_w", "write", "close_w">>

\* --------------------------------------------------------------- C9
\* C9 as stated: the text written is data[0 : splice] + block + data[end :],
\* end the first end marker after the first begin marker, and the retained
\* prefix ends with the begin marker followed by a newline.
C9_SpliceAfterNewline ==
    Updated =>
        \E b \in 0..Len(data) :
            /\ FirstAt(data, help_begin_text, 0, b)
            /\ \E e \in 0..Len(data) :
                   /\ FirstAt(data, help_end_text, b, e)
                   /\ file = WriteText(SubSeq(data, 1, b + Len(help_begin_text) + 1)
                                           \o help_output \o SubSeq(data, e + 1, Len(data)))
                   /\ HasSuffix(SubSeq(data, 1, b + Len(help_begin_text) + 1),
                                help_begin_text \o <<"\n">>)

\* C9 as amended: the text written is data[0 : splice] + block + data[end :],
\* end the first end marker after the first begin marker, and the retained
\* prefix ends with the begin marker followed by the one character that is
\* after it in the document, whichever it is.
C9_SpliceAfterOneCharacter ==
    Updated =>
        \E b \in 0..Len(data) :
            /\ FirstAt(data, help_begin_text, 0, b)
            /\ \E e \in 0..Len(data) :
                   /\ FirstAt(data, help_end_text, b, e)
                   /\ file = WriteText(SubSeq(data, 1, b + Len(help_begin_text) + 1)
                                           \o help_output \o SubSeq(data, e + 1, Len(data)))
                   /\ Len(data) >= b + Len(help_begin_text) + 1
                   /\ HasSuffix(SubSeq(data, 1, b + Len(help_begin_text) + 1),
                                help_begin_text \o <<data[b + Len(help_begin_text) + 1]>>)

\* a run wrote a document whose begin marker is followed by a character that is no newline
C9_Witness ==
    /\ Updated
    /\ data[help_begin_index] = "x"
    /\ file # file0

\* -------------------------------------------------------------- C10
Writing == pc \in {"open_w", "write", "close_w"} \/ Updated

\* C10 as stated: in a run that reaches the write the splice point is at
\* most the end marker's index, and the updated text's length is
\* splice + len(block) + (len(data) - end).
C10_SpliceBeforeEnd ==
    Writing =>
        /\ help_begin_index <= help_end_index
        /\ Len(data_update) = help_begin_index + Len(help_output) + (Len(data) - help_end_index)

\* C10 as amended: in a run that reaches the write the splice point is at
\* most the end marker's index plus one, and is the index plus one exactly
\* when the end marker is right after the begin marker, its first character
\* then written twice; the updated text's length is
\* splice + len(block) + (len(data) - end).
C10_SpliceAtMostOnePastEnd ==
    Writing =>
        /\ help_begin_index <= help_end_index + 1
        /\ help_begin_index = help_end_index + 1
               <=> OccursAt(data, help_begin_text \o help_end_text,
                            help_begin_index - Len(help_begin_text) - 1)
        /\ help_begin_index = help_end_index + 1
               => data_update[help_begin_index] = "." /\ data_update[help_begin_index + Len(help_output) + 1] = "."
        /\ help_begin_index <= Len(data)
        /\ Len(data_update) = help_begin_index + Len(help_output) + (Len(data) - help_end_index)

\* a run is about to write a document whose end marker is right after its begin marker
C10_Witness ==
    /\ pc = "open_w"
    /\ help_begin_index = help_end_index + 1
====
